---- MODULE Spec2Model ----
\* A model of netb/ayame: veth pairs, direct links, namespaces, the topology
\* builder (pkg/network) and the persisted State aggregate (pkg/state).
\*
\* Strings that the code inspects (device and link names, strings.HasPrefix) are
\* sequences of one-character strings.  Go errors are strings, "nil" for no error.
\* All commands run with dryrun/verbose = false.
EXTENDS Integers, Sequences, FiniteSets, TLC

\* ---------------------------------------------------------------- bounds

\* number of namespace configurations of a configuration file
MaxNs == 2
\* the host commands of one operation that may be made to fail: its first MaxFail
MaxFail == 12

\* ---------------------------------------------------------------- strings

\* the element of a one-element set: Only({Body(r) : r \in {Call}}) reads
\* "r := Call; Body(r)", the call evaluated once
Only(S) == CHOOSE x \in S : TRUE

NIL == "nil"

\* strings.HasPrefix(s, prefix)
HasPrefix(s, prefix) ==
    /\ Len(prefix) <= Len(s)
    /\ SubSeq(s, 1, Len(prefix)) = prefix

LeftSuffix == <<"-", "l", "e", "f", "t">>
RightSuffix == <<"-", "r", "i", "g", "h", "t">>

\* net.ParseCIDR(s) returns an error: the model's subnets are "10.0.0.1/24",
\* "10.0.0.2/24" (well formed) and "10.0.0.1" (no prefix length, rejected).
ParseCIDRFails(cidr) == cidr \notin {"10.0.0.1/24", "10.0.0.2/24"}

\* ---------------------------------------------------------------- host
\* The command collaborator (RunIp...): a host record holds the network
\* namespaces and the veth devices that the commands of the operation in
\* progress have created, the commands it issued (log), its CreateLink calls
\* (calls), the Destroy calls of its batch cleanups (destroys), and the
\* positions in log of the commands that fail (fails).

Root == <<>>

\* a command and whether it succeeded
Cmd(op, a, b) == [op |-> op, a |-> a, b |-> b, ok |-> TRUE]

\* the devices of the namespace called name
DevicesIn(h, name) == {x.name : x \in {y \in h.dev : y.at = name}}

HostEffect(h, c) ==
    CASE c.op = "link_add" ->
           [h EXCEPT !.dev = (@ \ {x \in @ : x.name \in {c.a, c.b}})
                              \cup {[name |-> c.a, peer |-> c.b, at |-> Root],
                                    [name |-> c.b, peer |-> c.a, at |-> Root]}]
      [] c.op = "link_del" ->
           [h EXCEPT !.dev = {x \in @ : x.name # c.a /\ x.peer # c.a}]
      [] c.op = "netns_add" ->
           [h EXCEPT !.netns = @ \cup {c.a}]
      [] c.op = "netns_del" ->
           [h EXCEPT !.netns = @ \ {c.a},
                     !.dev = {x \in @ : /\ x.name \notin DevicesIn(h, c.a)
                                        /\ x.peer \notin DevicesIn(h, c.a)}]
      [] c.op = "link_set_netns" ->
           [h EXCEPT !.dev = {IF x.name = c.a THEN [x EXCEPT !.at = c.b] ELSE x
                              : x \in @}]
      [] OTHER -> h

\* one command: logged, fails when its position is in h.fails, acts otherwise
Run(h, c) ==
    IF Len(h.log) + 1 \in h.fails
    THEN [h |-> [h EXCEPT !.log = Append(@, [c EXCEPT !.ok = FALSE])],
          err |-> "command failed"]
    ELSE [h |-> HostEffect([h EXCEPT !.log = Append(@, c)], c), err |-> NIL]

RunIpLinkCreate(h, left, right) == Run(h, Cmd("link_add", left, right))
RunIpLinkDelete(h, name) == Run(h, Cmd("link_del", name, <<>>))
RunIpNetnsAdd(h, name) == Run(h, Cmd("netns_add", name, <<>>))
RunIpNetnsDelete(h, name) == Run(h, Cmd("netns_del", name, <<>>))
RunIpLinkSetNamespaces(h, veth, ns) == Run(h, Cmd("link_set_netns", veth, ns))
RunAssignCidrToNamespaces(h, veth, ns) == Run(h, Cmd("addr_add", veth, ns))

\* ---------------------------------------------------------------- veth pair

\* the pair InitVethPair builds before it calls Create
NewVethPair(name) ==
    [Name |-> name,
     Left |-> [Name |-> name \o LeftSuffix, Attached |-> FALSE],
     Right |-> [Name |-> name \o RightSuffix, Attached |-> FALSE],
     Active |-> FALSE]

VethPairCreate(v, h) ==
    IF v.Active
    THEN [v |-> v, h |-> h, err |-> "is already created"]
    ELSE Only({IF r.err # NIL
               THEN [v |-> v, h |-> r.h, err |-> r.err]
               ELSE [v |-> [v EXCEPT !.Active = TRUE], h |-> r.h, err |-> NIL]
               : r \in {RunIpLinkCreate(h, v.Left.Name, v.Right.Name)}})

InitVethPair(name, h) == VethPairCreate(NewVethPair(name), h)

\* VethPair.Destroy that also clears Active when it deleted nothing
VethPairDestroyAlwaysInactive(v, h) ==
    IF ~v.Active
    THEN [v |-> v, h |-> h, err |-> "doesn't exist"]
    ELSE IF ~v.Left.Attached \/ ~v.Right.Attached
    THEN Only({IF r.err # NIL
               THEN [v |-> v, h |-> r.h, err |-> r.err]
               ELSE [v |-> [v EXCEPT !.Active = FALSE], h |-> r.h, err |-> NIL]
               : r \in {RunIpLinkDelete(h, IF ~v.Left.Attached THEN v.Left.Name
                                           ELSE v.Right.Name)}})
    ELSE [v |-> [v EXCEPT !.Active = FALSE], h |-> h, err |-> NIL]

\* the end of VethPair.Destroy, the deleted pair's endpoints marked unattached
VethPairDeletedDetaching(v, r) ==
    IF r.err # NIL
    THEN [v |-> v, h |-> r.h, err |-> r.err]
    ELSE [v |-> [v EXCEPT !.Active = FALSE, !.Left.Attached = FALSE,
                          !.Right.Attached = FALSE],
          h |-> r.h, err |-> NIL]

\* the end of VethPair.Destroy once RunIpLinkDelete has returned r
VethPairDeleted(v, r) ==
    IF r.err # NIL
    THEN [v |-> v, h |-> r.h, err |-> r.err]
    ELSE [v |-> [v EXCEPT !.Active = FALSE], h |-> r.h, err |-> NIL]

VethPairDestroy(v, h) ==
    IF ~v.Active
    THEN [v |-> v, h |-> h, err |-> "doesn't exist"]
    ELSE IF ~v.Left.Attached
    THEN VethPairDeleted(v, RunIpLinkDelete(h, v.Left.Name))
    ELSE IF ~v.Right.Attached
    THEN VethPairDeleted(v, RunIpLinkDelete(h, v.Right.Name))
    ELSE [v |-> v, h |-> h, err |-> NIL]

\* ---------------------------------------------------------------- namespace

\* the namespace InitNamespace builds: the roster copies the configured
\* devices, unconfigured
NewNamespace(c, active) ==
    [Name |-> c.Name, Active |-> active,
     RegisteredDeviceConfig |->
        [k \in 1..Len(c.Devices) |->
            [Name |-> c.Devices[k].Name, Cidr |-> c.Devices[k].Cidr,
             Configured |-> FALSE]]]

InitNamespace(c, h) ==
    Only({IF r.err # NIL
          THEN [n |-> NewNamespace(c, FALSE), h |-> r.h, err |-> r.err]
          ELSE [n |-> NewNamespace(c, TRUE), h |-> r.h, err |-> NIL]
          : r \in {RunIpNetnsAdd(h, c.Name)}})

NamespaceDestroy(n, h) ==
    IF ~n.Active
    THEN [n |-> n, h |-> h, err |-> "is already inactive"]
    ELSE Only({[n |-> n, h |-> r.h, err |-> r.err] : r \in {RunIpNetnsDelete(h, n.Name)}})

\* the two commands of Attach without the flags set after them
AttachCommandsUnmarked(n, veth, h, idx) ==
    Only({IF r1.err # NIL
          THEN [n |-> n, veth |-> veth, h |-> r1.h, err |-> "failed to set device"]
          ELSE Only({IF r2.err # NIL
                     THEN [n |-> n, veth |-> veth, h |-> r2.h,
                           err |-> "failed to assign CIDR"]
                     ELSE [n |-> n, veth |-> veth, h |-> r2.h, err |-> NIL]
                     : r2 \in {RunAssignCidrToNamespaces(r1.h, veth.Name, n.Name)}})
          : r1 \in {RunIpLinkSetNamespaces(h, veth.Name, n.Name)}})

\* the two commands of Attach, then every roster entry marked Configured
AttachCommandsMarkAll(n, veth, h, idx) ==
    Only({IF r1.err # NIL
          THEN [n |-> n, veth |-> veth, h |-> r1.h, err |-> "failed to set device"]
          ELSE Only({IF r2.err # NIL
                     THEN [n |-> n, veth |-> veth, h |-> r2.h,
                           err |-> "failed to assign CIDR"]
                     ELSE [n |-> [n EXCEPT !.RegisteredDeviceConfig =
                                     [k \in 1..Len(@) |-> [@[k] EXCEPT !.Configured = TRUE]]],
                           veth |-> [veth EXCEPT !.Attached = TRUE],
                           h |-> r2.h, err |-> NIL]
                     : r2 \in {RunAssignCidrToNamespaces(r1.h, veth.Name, n.Name)}})
          : r1 \in {RunIpLinkSetNamespaces(h, veth.Name, n.Name)}})

\* the two commands of Attach, the flags set even when the second command fails
AttachCommandsMarkOnFailure(n, veth, h, idx) ==
    Only({IF r1.err # NIL
          THEN [n |-> n, veth |-> veth, h |-> r1.h, err |-> "failed to set device"]
          ELSE Only({[n |-> [n EXCEPT !.RegisteredDeviceConfig[idx].Configured = TRUE],
                      veth |-> [veth EXCEPT !.Attached = TRUE],
                      h |-> r2.h,
                      err |-> IF r2.err # NIL THEN "failed to assign CIDR" ELSE NIL]
                     : r2 \in {RunAssignCidrToNamespaces(r1.h, veth.Name, n.Name)}})
          : r1 \in {RunIpLinkSetNamespaces(h, veth.Name, n.Name)}})

\* the two commands of Attach for roster entry idx, and the flags set after them
AttachCommands(n, veth, h, idx) ==
    Only({IF r1.err # NIL
          THEN [n |-> n, veth |-> veth, h |-> r1.h, err |-> "failed to set device"]
          ELSE Only({IF r2.err # NIL
                     THEN [n |-> n, veth |-> veth, h |-> r2.h,
                           err |-> "failed to assign CIDR"]
                     ELSE [n |-> [n EXCEPT !.RegisteredDeviceConfig[idx].Configured = TRUE],
                           veth |-> [veth EXCEPT !.Attached = TRUE],
                           h |-> r2.h, err |-> NIL]
                     : r2 \in {RunAssignCidrToNamespaces(r1.h, veth.Name, n.Name)}})
          : r1 \in {RunIpLinkSetNamespaces(h, veth.Name, n.Name)}})

\* Namespace.Attach taking the roster entry at idx whatever its name
AttachScanAnyEntry(n, veth, h, idx) ==
    IF idx > Len(n.RegisteredDeviceConfig)
    THEN [n |-> n, veth |-> veth, h |-> h, err |-> NIL]
    ELSE IF n.RegisteredDeviceConfig[idx].Configured
    THEN [n |-> n, veth |-> veth, h |-> h, err |-> "has been attached to namespace"]
    ELSE IF ParseCIDRFails(n.RegisteredDeviceConfig[idx].Cidr)
    THEN [n |-> n, veth |-> veth, h |-> h, err |-> "failed to parse CIDR"]
    ELSE AttachCommands(n, veth, h, idx)

\* the loop of Namespace.Attach from roster position idx on
RECURSIVE AttachScan(_, _, _, _)
AttachScan(n, veth, h, idx) ==
    IF idx > Len(n.RegisteredDeviceConfig)
    THEN [n |-> n, veth |-> veth, h |-> h, err |-> NIL]
    ELSE IF ~HasPrefix(veth.Name, n.RegisteredDeviceConfig[idx].Name)
    THEN AttachScan(n, veth, h, idx + 1)
    ELSE IF n.RegisteredDeviceConfig[idx].Configured
    THEN [n |-> n, veth |-> veth, h |-> h, err |-> "has been attached to namespace"]
    ELSE IF ParseCIDRFails(n.RegisteredDeviceConfig[idx].Cidr)
    THEN [n |-> n, veth |-> veth, h |-> h, err |-> "failed to parse CIDR"]
    ELSE AttachCommands(n, veth, h, idx)

NamespaceAttach(n, veth, h) ==
    IF veth.Attached
    THEN [n |-> n, veth |-> veth, h |-> h, err |-> "is already attached"]
    ELSE AttachScan(n, veth, h, 1)

\* ---------------------------------------------------------------- direct link

ModeDirectLink == "direct_link"
ModeBridge == "bridge"

InitDirectLink(cfg, h) ==
    IF cfg.LinkMode # ModeDirectLink
    THEN [d |-> [VethPair |-> NewVethPair(cfg.Name), Name |-> cfg.Name, Busy |-> FALSE],
          h |-> h, err |-> "invalid mode"]
    ELSE Only({[d |-> [VethPair |-> r.v, Name |-> cfg.Name, Busy |-> FALSE],
                h |-> r.h, err |-> r.err]
               : r \in {InitVethPair(cfg.Name, h)}})

DirectLinkDestroy(d, h) ==
    IF ~d.Busy
    THEN [d |-> d, h |-> h, err |-> "is not busy"]
    ELSE Only({[d |-> [d EXCEPT !.VethPair = r.v], h |-> r.h, err |-> r.err]
               : r \in {VethPairDestroy(d.VethPair, h)}})

\* A world w holds the objects the pointers of the code refer to: the direct
\* links w.dl, the namespaces w.ns, and the host w.h.

\* the world after Attach on namespace a with the endpoint on side b (1: Left,
\* 2: Right) of direct link i returned r
Attached(w, i, a, b, r) ==
    IF b = 1
    THEN [w EXCEPT !.ns[a] = r.n, !.dl[i].VethPair.Left = r.veth, !.h = r.h]
    ELSE [w EXCEPT !.ns[a] = r.n, !.dl[i].VethPair.Right = r.veth, !.h = r.h]

\* the record of a CreateLink call
Called(w, i, left, right) ==
    [w EXCEPT !.h.calls = Append(@, [link |-> w.dl[i].Name, left |-> left,
                                     right |-> right])]

\* CreateLink undoing the left Attach when the right Attach fails
CreateLinkAttachRollingBack(w, i, left, right) ==
    Only({IF r1.err # NIL
          THEN [w |-> Attached(w, i, left, 1, r1), err |-> r1.err]
          ELSE Only({Only({IF r2.err # NIL
                           THEN [w |-> [w EXCEPT !.h = r2.h], err |-> r2.err]
                           ELSE [w |-> [Attached(w1, i, right, 2, r2)
                                          EXCEPT !.dl[i].Busy = TRUE],
                                 err |-> NIL]
                           : r2 \in {NamespaceAttach(w1.ns[right],
                                                     w1.dl[i].VethPair.Right, w1.h)}})
                     : w1 \in {Attached(w, i, left, 1, r1)}})
          : r1 \in {NamespaceAttach(w.ns[left], w.dl[i].VethPair.Left, w.h)}})

\* CreateLink past the Busy check
CreateLinkAttach(w, i, left, right) ==
    Only({IF r1.err # NIL
          THEN [w |-> Attached(w, i, left, 1, r1), err |-> r1.err]
          ELSE Only({Only({IF r2.err # NIL
                           THEN [w |-> Attached(w1, i, right, 2, r2), err |-> r2.err]
                           ELSE [w |-> [Attached(w1, i, right, 2, r2)
                                          EXCEPT !.dl[i].Busy = TRUE],
                                 err |-> NIL]
                           : r2 \in {NamespaceAttach(w1.ns[right],
                                                     w1.dl[i].VethPair.Right, w1.h)}})
                     : w1 \in {Attached(w, i, left, 1, r1)}})
          : r1 \in {NamespaceAttach(w.ns[left], w.dl[i].VethPair.Left, w.h)}})

\* CreateLink on direct link i with the namespaces at positions left and right
\* (the same position twice is the same *Namespace passed twice)
DirectLinkCreateLink(w, i, left, right) ==
    IF w.dl[i].Busy
    THEN [w |-> Called(w, i, left, right), err |-> "has been already busy"]
    ELSE CreateLinkAttach(Called(w, i, left, right), i, left, right)

\* the loop of InitDirectLinks from position k on; acc are the links built so far
RECURSIVE InitDirectLinksFrom(_, _, _, _)
InitDirectLinksFrom(links, k, acc, h) ==
    IF k > Len(links)
    THEN [dl |-> acc, h |-> h]
    ELSE IF links[k].LinkMode # ModeDirectLink
    THEN InitDirectLinksFrom(links, k + 1, acc, h)
    ELSE Only({IF r.err # NIL
               THEN InitDirectLinksFrom(links, k + 1, acc, r.h)
               ELSE InitDirectLinksFrom(links, k + 1, Append(acc, r.d), r.h)
               : r \in {InitDirectLink(links[k], h)}})

InitDirectLinks(links, h) == InitDirectLinksFrom(links, 1, <<>>, h)

\* the record of one Destroy call of a batch cleanup: on the k-th element of
\* the list of links, bridges or namespaces, with the error it returned
Destroyed(h, kind, k, err) ==
    [h EXCEPT !.destroys = Append(@, [kind |-> kind, k |-> k, err |-> err])]

\* multierr.Append(allerr, err): the aggregate is the sequence of the errors
\* appended so far, <<>> for a nil aggregate
MultierrAppend(allerr, err) == Append(allerr, err)

\* the loop of CleanupDirectLinks returning at the first Destroy that fails
RECURSIVE CleanupDirectLinksStopping(_, _, _, _)
CleanupDirectLinksStopping(dl, k, h, allerr) ==
    IF k > Len(dl)
    THEN [dl |-> dl, h |-> h, allerr |-> allerr]
    ELSE Only({IF r.err # NIL
               THEN [dl |-> [dl EXCEPT ![k] = r.d],
                     h |-> Destroyed(r.h, "link", k, r.err),
                     allerr |-> MultierrAppend(allerr, r.err)]
               ELSE CleanupDirectLinksStopping([dl EXCEPT ![k] = r.d], k + 1,
                                               Destroyed(r.h, "link", k, r.err), allerr)
               : r \in {DirectLinkDestroy(dl[k], h)}})

\* the loop of CleanupDirectLinks from position k on
RECURSIVE CleanupDirectLinksFrom(_, _, _, _)
CleanupDirectLinksFrom(dl, k, h, allerr) ==
    IF k > Len(dl)
    THEN [dl |-> dl, h |-> h, allerr |-> allerr]
    ELSE Only({CleanupDirectLinksFrom([dl EXCEPT ![k] = r.d], k + 1,
                                      Destroyed(r.h, "link", k, r.err),
                                      IF r.err # NIL THEN MultierrAppend(allerr, r.err)
                                      ELSE allerr)
               : r \in {DirectLinkDestroy(dl[k], h)}})

CleanupDirectLinks(dl, h) == CleanupDirectLinksFrom(dl, 1, h, <<>>)

\* the loop of CleanupNamespaces from position k on
RECURSIVE CleanupNamespacesFrom(_, _, _, _)
CleanupNamespacesFrom(nss, k, h, allerr) ==
    IF k > Len(nss)
    THEN [ns |-> nss, h |-> h, allerr |-> allerr]
    ELSE Only({CleanupNamespacesFrom([nss EXCEPT ![k] = r.n], k + 1,
                                     Destroyed(r.h, "namespace", k, r.err),
                                     IF r.err # NIL THEN MultierrAppend(allerr, r.err)
                                     ELSE allerr)
               : r \in {NamespaceDestroy(nss[k], h)}})

CleanupNamespaces(nss, h) == CleanupNamespacesFrom(nss, 1, h, <<>>)

\* the loop of InitNamespaces skipping a namespace whose creation fails
RECURSIVE InitNamespacesSkipping(_, _, _, _)
InitNamespacesSkipping(conf, k, acc, h) ==
    IF k > Len(conf)
    THEN [ns |-> acc, h |-> h, err |-> NIL]
    ELSE Only({IF r.err # NIL
               THEN InitNamespacesSkipping(conf, k + 1, acc, r.h)
               ELSE InitNamespacesSkipping(conf, k + 1, Append(acc, r.n), r.h)
               : r \in {InitNamespace(conf[k], h)}})

\* the loop of InitNamespaces from position k on: the first failure returns
\* (nil, err), dropping the namespaces built so far
RECURSIVE InitNamespacesFrom(_, _, _, _)
InitNamespacesFrom(conf, k, acc, h) ==
    IF k > Len(conf)
    THEN [ns |-> acc, h |-> h, err |-> NIL]
    ELSE Only({IF r.err # NIL
               THEN [ns |-> <<>>, h |-> r.h, err |-> r.err]
               ELSE InitNamespacesFrom(conf, k + 1, Append(acc, r.n), r.h)
               : r \in {InitNamespace(conf[k], h)}})

InitNamespaces(conf, h) == InitNamespacesFrom(conf, 1, <<>>, h)

\* ---------------------------------------------------------------- topology builder

\* netLinks[name]: the namespace positions whose roster holds an entry called
\* name, one per entry, in the order of the two nested loops
RECURSIVE RosterRefs(_, _, _, _)
RosterRefs(roster, k, name, i) ==
    IF k > Len(roster) THEN <<>>
    ELSE (IF roster[k].Name = name THEN <<i>> ELSE <<>>)
         \o RosterRefs(roster, k + 1, name, i)

RECURSIVE NetLinksOf(_, _, _)
NetLinksOf(nss, i, name) ==
    IF i > Len(nss) THEN <<>>
    ELSE RosterRefs(nss[i].RegisteredDeviceConfig, 1, name, i)
         \o NetLinksOf(nss, i + 1, name)

\* the keys of netLinks
NetLinkNames(nss) ==
    UNION {{nss[i].RegisteredDeviceConfig[k].Name :
              k \in 1..Len(nss[i].RegisteredDeviceConfig)} : i \in 1..Len(nss)}

\* findValidLinkIndex: the first link called name, 0 for the code's -1
FindValidLinkIndex(links, name) ==
    IF {i \in 1..Len(links) : links[i].Name = name} = {} THEN 0
    ELSE CHOOSE i \in 1..Len(links) :
            /\ links[i].Name = name
            /\ \A j \in 1..(i - 1) : links[j].Name # name

\* the range loop without the check for more than two references
RECURSIVE ConfigureNetLinksNoFanoutCheck(_, _, _)
ConfigureNetLinksNoFanoutCheck(w, order, k) ==
    IF k > Len(order)
    THEN [w |-> w, err |-> NIL]
    ELSE Only({
        IF Len(idxs) = 1
        THEN [w |-> w, err |-> "have only 1 link"]
        ELSE IF FindValidLinkIndex(w.dl, order[k]) = 0
        THEN [w |-> w, err |-> "can't find device"]
        ELSE Only({IF r.err # NIL
                   THEN [w |-> r.w, err |-> "failed to create links"]
                   ELSE ConfigureNetLinksNoFanoutCheck(r.w, order, k + 1)
                   : r \in {DirectLinkCreateLink(w, FindValidLinkIndex(w.dl, order[k]),
                                                 idxs[1], idxs[2])}})
        : idxs \in {NetLinksOf(w.ns, 1, order[k])}})

\* the range loop over netLinks, visiting the names in the order given
RECURSIVE ConfigureNetLinks(_, _, _)
ConfigureNetLinks(w, order, k) ==
    IF k > Len(order)
    THEN [w |-> w, err |-> NIL]
    ELSE Only({
        IF Len(idxs) = 1
        THEN [w |-> w, err |-> "have only 1 link"]
        ELSE IF Len(idxs) > 2
        THEN [w |-> w, err |-> "has over 3 links"]
        ELSE IF FindValidLinkIndex(w.dl, order[k]) = 0
        THEN [w |-> w, err |-> "can't find device"]
        ELSE Only({IF r.err # NIL
                   THEN [w |-> r.w, err |-> "failed to create links"]
                   ELSE ConfigureNetLinks(r.w, order, k + 1)
                   : r \in {DirectLinkCreateLink(w, FindValidLinkIndex(w.dl, order[k]),
                                                 idxs[1], idxs[2])}})
        : idxs \in {NetLinksOf(w.ns, 1, order[k])}})

\* the range loop leaving out the name it would visit first
InitNamespacesLinksSkippingFirst(w, order) == ConfigureNetLinks(w, order, 2)

InitNamespacesLinks(w, order) == ConfigureNetLinks(w, order, 1)

\* the orders in which a Go map with these keys can be ranged over
RECURSIVE Orders(_)
Orders(S) ==
    IF S = {} THEN {<<>>}
    ELSE UNION {{<<x>> \o t : t \in Orders(S \ {x})} : x \in S}

\* ---------------------------------------------------------------- bridge
\* Bridge, InitBridges and CleanupBridges are called by pkg/state: a bridge has
\* the lifecycle contract of a direct link (created active and not busy,
\* destroy fails unless busy, batch init skips, batch cleanup aggregates).

InitBridge(cfg, h) ==
    Only({[br |-> [Name |-> cfg.Name, Active |-> r.err = NIL, Busy |-> FALSE],
           h |-> r.h, err |-> r.err]
          : r \in {Run(h, Cmd("bridge_add", cfg.Name, <<>>))}})

BridgeDestroy(b, h) ==
    IF ~b.Busy
    THEN [b |-> b, h |-> h, err |-> "is not busy"]
    ELSE IF ~b.Active
    THEN [b |-> b, h |-> h, err |-> "doesn't exist"]
    ELSE Only({IF r.err # NIL
               THEN [b |-> b, h |-> r.h, err |-> r.err]
               ELSE [b |-> [b EXCEPT !.Active = FALSE], h |-> r.h, err |-> NIL]
               : r \in {Run(h, Cmd("bridge_del", b.Name, <<>>))}})

RECURSIVE InitBridgesFrom(_, _, _, _)
InitBridgesFrom(links, k, acc, h) ==
    IF k > Len(links)
    THEN [br |-> acc, h |-> h]
    ELSE IF links[k].LinkMode # ModeBridge
    THEN InitBridgesFrom(links, k + 1, acc, h)
    ELSE Only({IF r.err # NIL
               THEN InitBridgesFrom(links, k + 1, acc, r.h)
               ELSE InitBridgesFrom(links, k + 1, Append(acc, r.br), r.h)
               : r \in {InitBridge(links[k], h)}})

InitBridges(links, h) == InitBridgesFrom(links, 1, <<>>, h)

RECURSIVE CleanupBridgesFrom(_, _, _, _)
CleanupBridgesFrom(brs, k, h, allerr) ==
    IF k > Len(brs)
    THEN [br |-> brs, h |-> h, allerr |-> allerr]
    ELSE Only({CleanupBridgesFrom([brs EXCEPT ![k] = r.b], k + 1,
                                  Destroyed(r.h, "bridge", k, r.err),
                                  IF r.err # NIL THEN MultierrAppend(allerr, r.err)
                                  ELSE allerr)
               : r \in {BridgeDestroy(brs[k], h)}})

CleanupBridges(brs, h) == CleanupBridgesFrom(brs, 1, h, <<>>)

\* ---------------------------------------------------------------- state

\* a *State: nil, or the three lists
NilState == [nil |-> TRUE, DirectLinks |-> <<>>, Bridges |-> <<>>, Namespaces |-> <<>>]

NewState(dl, br, ns) ==
    [nil |-> FALSE, DirectLinks |-> dl, Bridges |-> br, Namespaces |-> ns]

\* encoding/json: a JSON array, null for a nil slice (the code's empty slices
\* are nil: they are declared with var and only appended to)
JsonArray(items) == [null |-> items = <<>>, items |-> items]

GoSlice(j) == IF j.null THEN <<>> ELSE j.items

\* a Veth written without its Attached flag
MarshalVethUnattached(v) == [name |-> v.Name, attached |-> FALSE]

MarshalVeth(v) == [name |-> v.Name, attached |-> v.Attached]
UnmarshalVeth(j) == [Name |-> j.name, Attached |-> j.attached]

MarshalVethPair(p) ==
    [name |-> p.Name, veth_left |-> MarshalVeth(p.Left),
     veth_right |-> MarshalVeth(p.Right), is_active |-> p.Active]
UnmarshalVethPair(j) ==
    [Name |-> j.name, Left |-> UnmarshalVeth(j.veth_left),
     Right |-> UnmarshalVeth(j.veth_right), Active |-> j.is_active]

MarshalDirectLink(d) ==
    [veth_pair |-> MarshalVethPair(d.VethPair), name |-> d.Name, busy |-> d.Busy]
UnmarshalDirectLink(j) ==
    [VethPair |-> UnmarshalVethPair(j.veth_pair), Name |-> j.name, Busy |-> j.busy]

MarshalBridge(b) == [name |-> b.Name, is_active |-> b.Active, busy |-> b.Busy]
UnmarshalBridge(j) == [Name |-> j.name, Active |-> j.is_active, Busy |-> j.busy]

MarshalDevice(c) ==
    [device_config |-> [name |-> c.Name, cidr |-> c.Cidr], configured |-> c.Configured]
UnmarshalDevice(j) ==
    [Name |-> j.device_config.name, Cidr |-> j.device_config.cidr,
     Configured |-> j.configured]

MarshalNamespace(n) ==
    [name |-> n.Name, is_active |-> n.Active,
     registered_device_config |->
        JsonArray([k \in 1..Len(n.RegisteredDeviceConfig) |->
                     MarshalDevice(n.RegisteredDeviceConfig[k])])]
UnmarshalNamespace(j) ==
    [Name |-> j.name, Active |-> j.is_active,
     RegisteredDeviceConfig |->
        [k \in 1..Len(GoSlice(j.registered_device_config)) |->
            UnmarshalDevice(GoSlice(j.registered_device_config)[k])]]

\* json.Marshal(s) and json.Unmarshal(b, &state)
Marshal(s) ==
    [direct_links |-> JsonArray([k \in 1..Len(s.DirectLinks) |-> MarshalDirectLink(s.DirectLinks[k])]),
     bridges |-> JsonArray([k \in 1..Len(s.Bridges) |-> MarshalBridge(s.Bridges[k])]),
     namespaces |-> JsonArray([k \in 1..Len(s.Namespaces) |-> MarshalNamespace(s.Namespaces[k])])]
Unmarshal(j) ==
    NewState([k \in 1..Len(GoSlice(j.direct_links)) |-> UnmarshalDirectLink(GoSlice(j.direct_links)[k])],
             [k \in 1..Len(GoSlice(j.bridges)) |-> UnmarshalBridge(GoSlice(j.bridges)[k])],
             [k \in 1..Len(GoSlice(j.namespaces)) |-> UnmarshalNamespace(GoSlice(j.namespaces)[k])])

\* the file $HOME/.ayame/state.json: absent, or its content
NoFile == [exists |-> FALSE, content |-> Marshal(NilState)]

LoadStateFromFile(f) ==
    IF ~f.exists
    THEN [st |-> NilState, err |-> "no saved state"]
    ELSE [st |-> Unmarshal(f.content), err |-> NIL]

SaveState(s, f) == [file |-> [exists |-> TRUE, content |-> Marshal(s)], err |-> NIL]

\* os.Remove of the state file
OsRemove(f) ==
    IF f.exists THEN [file |-> NoFile, err |-> NIL]
    ELSE [file |-> f, err |-> "no such file"]

\* the error a batch cleanup returns for the aggregate allerr
ErrOf(allerr) ==
    IF allerr = <<>> THEN NIL
    ELSE IF Len(allerr) = 1 THEN allerr[1] ELSE "multierr"

\* DisposeResources once the namespaces are cleaned up: os.Remove
DisposeFile(s, h, f) ==
    Only({[st |-> s, h |-> h, file |-> r4.file, err |-> r4.err] : r4 \in {OsRemove(f)}})

\* DisposeResources once the bridges are cleaned up
DisposeNamespaces(s, h, f) ==
    Only({IF r3.allerr # <<>>
          THEN [st |-> [s EXCEPT !.Namespaces = r3.ns], h |-> r3.h, file |-> f,
                err |-> ErrOf(r3.allerr)]
          ELSE DisposeFile([s EXCEPT !.Namespaces = r3.ns], r3.h, f)
          : r3 \in {CleanupNamespaces(s.Namespaces, h)}})

\* DisposeResources once the direct links are cleaned up
DisposeBridges(s, h, f) ==
    Only({IF r2.allerr # <<>>
          THEN [st |-> [s EXCEPT !.Bridges = r2.br], h |-> r2.h, file |-> f,
                err |-> ErrOf(r2.allerr)]
          ELSE DisposeNamespaces([s EXCEPT !.Bridges = r2.br], r2.h, f)
          : r2 \in {CleanupBridges(s.Bridges, h)}})

\* DisposeResources going on after a failed cleanup of the direct links
DisposeResourcesNoStop(s, h, f) ==
    Only({DisposeBridges([s EXCEPT !.DirectLinks = r1.dl], r1.h, f)
          : r1 \in {CleanupDirectLinks(s.DirectLinks, h)}})

DisposeResources(s, h, f) ==
    Only({IF r1.allerr # <<>>
          THEN [st |-> [s EXCEPT !.DirectLinks = r1.dl], h |-> r1.h, file |-> f,
                err |-> ErrOf(r1.allerr)]
          ELSE DisposeBridges([s EXCEPT !.DirectLinks = r1.dl], r1.h, f)
          : r1 \in {CleanupDirectLinks(s.DirectLinks, h)}})

\* the three cleanups InitAll runs when InitNamespaces failed; their errors
\* are dropped
InitAllCleanup(dlinks, brs, ns, h) ==
    CleanupNamespaces(ns, CleanupBridges(brs, CleanupDirectLinks(dlinks, h).h).h).h

\* the keys of the netLinks map that the rosters of conf give
ConfigLinkNames(conf) ==
    UNION {{conf[i].Devices[k].Name : k \in 1..Len(conf[i].Devices)} : i \in 1..Len(conf)}

\* network.InitNamespaces(cfg.Namespaces, dlinks) once the namespaces are
\* constructed: the topology builder runs over them and dlinks, the netLinks
\* map ranged over in the given order; a wiring failure is returned with the
\* namespaces (which the caller then cleans up)
InitNamespacesWiring(nss, dlinks, h, order) ==
    Only({[dl |-> r.w.dl, ns |-> r.w.ns, h |-> r.w.h, err |-> r.err]
          : r \in {InitNamespacesLinks([dl |-> dlinks, ns |-> nss, h |-> h], order)}})

\* network.InitNamespaces(cfg.Namespaces, dlinks) as pkg/state calls it: it
\* constructs the namespaces (a failure returns the error and no list) and
\* wires them to dlinks, which it changes in place
InitNamespacesWithLinks(conf, dlinks, h, order) ==
    Only({IF r.err # NIL
          THEN [dl |-> dlinks, ns |-> <<>>, h |-> r.h, err |-> r.err]
          ELSE InitNamespacesWiring(r.ns, dlinks, r.h, order)
          : r \in {InitNamespaces(conf, h)}})

\* InitAll past InitDirectLinks and InitBridges: the namespaces are built and
\* wired, and on an error the three cleanups run on what there is
InitAllNamespaces(cfg, dlinks, brs, h, order) ==
    Only({IF r3.err # NIL
          THEN [st |-> NilState, h |-> InitAllCleanup(r3.dl, brs, r3.ns, r3.h),
                err |-> r3.err]
          ELSE [st |-> NewState(r3.dl, brs, r3.ns), h |-> r3.h, err |-> NIL]
          : r3 \in {InitNamespacesWithLinks(cfg.Namespaces, dlinks, h, order)}})

\* InitAll past InitDirectLinks
InitAllBridges(cfg, dlinks, h, order) ==
    Only({InitAllNamespaces(cfg, dlinks, r2.br, r2.h, order)
          : r2 \in {InitBridges(cfg.Links, h)}})

\* InitAll without the check of currState
InitAllUnguarded(cfg, currState, h, order) ==
    Only({InitAllBridges(cfg, r1.dl, r1.h, order) : r1 \in {InitDirectLinks(cfg.Links, h)}})

InitAll(cfg, currState, h, order) ==
    IF ~currState.nil
    THEN [st |-> NilState, h |-> h, err |-> "must destroy existing resources"]
    ELSE Only({InitAllBridges(cfg, r1.dl, r1.h, order)
               : r1 \in {InitDirectLinks(cfg.Links, h)}})

\* ---------------------------------------------------------------- configurations

NameA == <<"a">>
NameAB == <<"a", "b">>
NameBr == <<"b", "r">>
NsName(i) == <<"n", "s", ToString(i)>>

Dev(name) == [Name |-> name, Cidr |-> "10.0.0.1/24"]
BadDev(name) == [Name |-> name, Cidr |-> "10.0.0.1"]
Direct(name) == [Name |-> name, LinkMode |-> ModeDirectLink]

\* the device rosters a namespace configuration declares
Rosters ==
    {<<>>, <<Dev(NameA)>>, <<Dev(NameA), Dev(NameA)>>, <<Dev(NameA), Dev(NameAB)>>,
     <<Dev(NameAB), Dev(NameA)>>, <<Dev(NameAB)>>, <<BadDev(NameA)>>}

\* the link lists a configuration declares
LinkLists ==
    {<<Direct(NameA)>>, <<Direct(NameA), Direct(NameAB)>>,
     <<Direct(NameA), [Name |-> NameBr, LinkMode |-> ModeBridge]>>}

ConfigsOf(lists) ==
    {[Links |-> links,
      Namespaces |-> [i \in 1..MaxNs |-> [Name |-> NsName(i), Devices |-> rosters[i]]]] :
        links \in lists, rosters \in [1..MaxNs -> Rosters]}

\* the configurations of the runs of the batch functions and of build, save,
\* load and dispose
Configs == ConfigsOf(LinkLists)

\* the configurations of the runs that call the operations of one direct link
\* and of the namespaces directly
OneLinkConfigs == ConfigsOf({<<Direct(NameA)>>})

\* ---------------------------------------------------------------- the program

VARIABLES
    cfg,    \* the configuration file of this run
    st,     \* the *State the caller holds (NilState for nil)
    file,   \* the persisted state file
    saved,  \* the State the last SaveState was called on (NilState: none)
    last    \* the operation that has just returned, "idle" between operations

vars == <<cfg, st, file, saved, last>>

\* the commands that fail during one operation: none, or one of its first MaxFail
FailSets == {{}} \cup {{k} : k \in 1..MaxFail}

NoHost == [netns |-> {}, dev |-> {}]

\* an operation starts with nothing logged; its host record follows the
\* namespaces and devices that its own commands create, move and delete
Begin(F) == [netns |-> {}, dev |-> {}, log |-> <<>>, calls |-> <<>>,
             destroys |-> <<>>, fails |-> F]

HostOf(h) == [netns |-> h.netns, dev |-> h.dev]

\* the record of an operation: its name, its arguments (direct link i,
\* namespaces a and b), the error it returned (err1: the error of the first of
\* two calls), the State it returned, the commands, CreateLink calls and
\* cleanup Destroy calls it made, what its commands created and left on the
\* host, and the State and file it started from
Done(op, i, a, b, h, err) ==
    [op |-> op, i |-> i, a |-> a, b |-> b, err |-> err, err1 |-> NIL,
     out |-> NilState, log |-> h.log, calls |-> h.calls, destroys |-> h.destroys,
     host |-> HostOf(h), pre |-> st, preFile |-> file]

Idle == [op |-> "idle", i |-> 0, a |-> 0, b |-> 0, err |-> NIL, err1 |-> NIL,
         out |-> NilState, log |-> <<>>, calls |-> <<>>, destroys |-> <<>>,
         host |-> NoHost, pre |-> NilState, preFile |-> NoFile]

World(h) == [dl |-> st.DirectLinks, ns |-> st.Namespaces, h |-> h]

Start(configs) ==
    /\ cfg \in configs
    /\ st = NilState
    /\ file = NoFile
    /\ saved = NilState
    /\ last = Idle

Init == Start(OneLinkConfigs)

InitState == Start(Configs)

LinkIdx == 1..Len(st.DirectLinks)
NsIdx == 1..Len(st.Namespaces)

\* the caller takes the result; the next operation starts from here
Return ==
    /\ last.op # "idle"
    /\ last' = Idle
    /\ UNCHANGED <<cfg, st, file, saved>>

\* state.InitAll(cfg, currState), the netLinks map of its wiring ranged over
\* in any order; the caller keeps a State it already holds
DoInitAll ==
    /\ last.op = "idle"
    /\ \E F \in FailSets : \E order \in Orders(ConfigLinkNames(cfg.Namespaces)) :
        \E r \in {InitAll(cfg, st, Begin(F), order)} :
        /\ st' = IF st.nil THEN r.st ELSE st
        /\ last' = [Done("InitAll", 0, 0, 0, r.h, r.err) EXCEPT !.out = r.st]
        /\ UNCHANGED <<cfg, file, saved>>

\* the lists that network.InitDirectLinks and network.InitNamespaces return
\* for the configuration, not wired yet: what the calls on the objects and the
\* batch functions of pkg/network are given (no list when a namespace fails)
DoInitLists ==
    /\ last.op = "idle"
    /\ st.nil
    /\ \E F \in FailSets :
        \E r1 \in {InitDirectLinks(cfg.Links, Begin(F))} :
        \E r3 \in {InitNamespaces(cfg.Namespaces, r1.h)} :
        /\ st' = IF r3.err # NIL THEN NilState ELSE NewState(r1.dl, <<>>, r3.ns)
        /\ last' = [Done("InitLists", 0, 0, 0, r3.h, r3.err) EXCEPT !.out = st']
        /\ UNCHANGED <<cfg, file, saved>>

\* s.SaveState()
DoSaveState ==
    /\ last.op = "idle"
    /\ ~st.nil
    /\ \E r \in {SaveState(st, file)} :
        /\ file' = r.file
        /\ saved' = st
        /\ last' = Done("SaveState", 0, 0, 0, Begin({}), r.err)
    /\ UNCHANGED <<cfg, st>>

\* state.LoadStateFromFile(): the caller holds what it returns
DoLoadStateFromFile ==
    /\ last.op = "idle"
    /\ \E r \in {LoadStateFromFile(file)} :
        /\ st' = r.st
        /\ last' = [Done("LoadStateFromFile", 0, 0, 0, Begin({}), r.err)
                      EXCEPT !.out = r.st]
    /\ UNCHANGED <<cfg, file, saved>>

\* s.DisposeResources()
DoDisposeResources ==
    /\ last.op = "idle"
    /\ ~st.nil
    /\ \E F \in FailSets :
        \E r \in {DisposeResources(st, Begin(F), file)} :
        /\ st' = r.st
        /\ file' = r.file
        /\ saved' = IF r.file.exists THEN saved ELSE NilState
        /\ last' = Done("DisposeResources", 0, 0, 0, r.h, r.err)
    /\ UNCHANGED cfg

\* d.Destroy() on direct link i
DoDirectLinkDestroy ==
    /\ last.op = "idle"
    /\ \E i \in LinkIdx : \E F \in FailSets :
        \E r \in {DirectLinkDestroy(st.DirectLinks[i], Begin(F))} :
        /\ st' = [st EXCEPT !.DirectLinks[i] = r.d]
        /\ last' = Done("DirectLink.Destroy", i, 0, 0, r.h, r.err)
        /\ UNCHANGED <<cfg, file, saved>>

\* d.CreateLink(left, right) on direct link i with namespaces a and b
DoCreateLink ==
    /\ last.op = "idle"
    /\ \E i \in LinkIdx : \E a \in NsIdx : \E b \in NsIdx : \E F \in FailSets :
        \E r \in {DirectLinkCreateLink(World(Begin(F)), i, a, b)} :
        /\ st' = [st EXCEPT !.DirectLinks = r.w.dl, !.Namespaces = r.w.ns]
        /\ last' = Done("DirectLink.CreateLink", i, a, b, r.w.h, r.err)
        /\ UNCHANGED <<cfg, file, saved>>

\* d.VethPair.Create() on the pair of direct link i
DoVethPairCreate ==
    /\ last.op = "idle"
    /\ \E i \in LinkIdx : \E F \in FailSets :
        \E r \in {VethPairCreate(st.DirectLinks[i].VethPair, Begin(F))} :
        /\ st' = [st EXCEPT !.DirectLinks[i].VethPair = r.v]
        /\ last' = Done("VethPair.Create", i, 0, 0, r.h, r.err)
        /\ UNCHANGED <<cfg, file, saved>>

\* d.VethPair.Destroy() on the pair of direct link i
DoVethPairDestroy ==
    /\ last.op = "idle"
    /\ \E i \in LinkIdx : \E F \in FailSets :
        \E r \in {VethPairDestroy(st.DirectLinks[i].VethPair, Begin(F))} :
        /\ st' = [st EXCEPT !.DirectLinks[i].VethPair = r.v]
        /\ last' = Done("VethPair.Destroy", i, 0, 0, r.h, r.err)
        /\ UNCHANGED <<cfg, file, saved>>

\* the endpoint of direct link i on side b: 1 for Left, 2 for Right
Endpoint(s, i, b) ==
    IF b = 1 THEN s.DirectLinks[i].VethPair.Left ELSE s.DirectLinks[i].VethPair.Right

SetEndpoint(s, i, b, veth) ==
    IF b = 1 THEN [s EXCEPT !.DirectLinks[i].VethPair.Left = veth]
    ELSE [s EXCEPT !.DirectLinks[i].VethPair.Right = veth]

\* n.Attach(veth) on namespace a with the endpoint of direct link i on side b
DoNamespaceAttach ==
    /\ last.op = "idle"
    /\ \E a \in NsIdx : \E i \in LinkIdx : \E b \in {1, 2} : \E F \in FailSets :
        \E r \in {NamespaceAttach(st.Namespaces[a], Endpoint(st, i, b), Begin(F))} :
        /\ st' = SetEndpoint([st EXCEPT !.Namespaces[a] = r.n], i, b, r.veth)
        /\ last' = Done("Namespace.Attach", i, a, b, r.h, r.err)
        /\ UNCHANGED <<cfg, file, saved>>

\* n.Attach(veth) called twice in a row with the same namespace and endpoint
DoNamespaceAttachTwice ==
    /\ last.op = "idle"
    /\ \E a \in NsIdx : \E i \in LinkIdx : \E b \in {1, 2} : \E F \in FailSets :
        \E r1 \in {NamespaceAttach(st.Namespaces[a], Endpoint(st, i, b), Begin(F))} :
        \E r2 \in {NamespaceAttach(r1.n, r1.veth, r1.h)} :
        /\ st' = SetEndpoint([st EXCEPT !.Namespaces[a] = r2.n], i, b, r2.veth)
        /\ last' = [Done("Namespace.Attach twice", i, a, b, r2.h, r2.err)
                      EXCEPT !.err1 = r1.err]
        /\ UNCHANGED <<cfg, file, saved>>

\* n.Destroy() on namespace a
DoNamespaceDestroy ==
    /\ last.op = "idle"
    /\ \E a \in NsIdx : \E F \in FailSets :
        \E r \in {NamespaceDestroy(st.Namespaces[a], Begin(F))} :
        /\ st' = [st EXCEPT !.Namespaces[a] = r.n]
        /\ last' = Done("Namespace.Destroy", 0, a, 0, r.h, r.err)
        /\ UNCHANGED <<cfg, file, saved>>

\* network.InitNamespacesLinks(s.Namespaces, s.DirectLinks), the map ranged
\* over in any order
DoInitNamespacesLinks ==
    /\ last.op = "idle"
    /\ ~st.nil
    /\ \E F \in FailSets : \E order \in Orders(NetLinkNames(st.Namespaces)) :
        \E r \in {InitNamespacesLinks(World(Begin(F)), order)} :
        /\ st' = [st EXCEPT !.DirectLinks = r.w.dl, !.Namespaces = r.w.ns]
        /\ last' = Done("InitNamespacesLinks", 0, 0, 0, r.w.h, r.err)
        /\ UNCHANGED <<cfg, file, saved>>

\* network.CleanupDirectLinks(s.DirectLinks)
DoCleanupDirectLinks ==
    /\ last.op = "idle"
    /\ ~st.nil
    /\ \E F \in FailSets :
        \E r \in {CleanupDirectLinks(st.DirectLinks, Begin(F))} :
        /\ st' = [st EXCEPT !.DirectLinks = r.dl]
        /\ last' = Done("CleanupDirectLinks", 0, 0, 0, r.h, ErrOf(r.allerr))
        /\ UNCHANGED <<cfg, file, saved>>

\* network.CleanupNamespaces(s.Namespaces)
DoCleanupNamespaces ==
    /\ last.op = "idle"
    /\ ~st.nil
    /\ \E F \in FailSets :
        \E r \in {CleanupNamespaces(st.Namespaces, Begin(F))} :
        /\ st' = [st EXCEPT !.Namespaces = r.ns]
        /\ last' = Done("CleanupNamespaces", 0, 0, 0, r.h, ErrOf(r.allerr))
        /\ UNCHANGED <<cfg, file, saved>>

\* network.InitNamespaces(cfg.Namespaces), called before a State is built; the
\* list it returns is recorded as the Namespaces of last.out (nil on error)
DoInitNamespaces ==
    /\ last.op = "idle"
    /\ st.nil
    /\ \E F \in FailSets :
        \E r \in {InitNamespaces(cfg.Namespaces, Begin(F))} :
        /\ last' = [Done("InitNamespaces", 0, 0, 0, r.h, r.err)
                      EXCEPT !.out = IF r.err # NIL THEN NilState
                                     ELSE NewState(<<>>, <<>>, r.ns)]
        /\ UNCHANGED <<cfg, st, file, saved>>

\* the calls on one direct link, its veth pair and the namespaces
Next ==
    \/ Return
    \/ DoInitLists
    \/ DoDirectLinkDestroy
    \/ DoCreateLink
    \/ DoVethPairCreate
    \/ DoVethPairDestroy
    \/ DoNamespaceAttach
    \/ DoNamespaceAttachTwice
    \/ DoNamespaceDestroy

Spec == Init /\ [][Next]_vars

\* the batch functions of pkg/network on the lists of a configuration
NextNetwork ==
    \/ Return
    \/ DoInitLists
    \/ DoInitNamespaces
    \/ DoInitNamespacesLinks
    \/ DoCleanupDirectLinks
    \/ DoCleanupNamespaces

SpecNetwork == InitState /\ [][NextNetwork]_vars

\* pkg/state: build, save, load, dispose
NextState ==
    \/ Return
    \/ DoInitAll
    \/ DoSaveState
    \/ DoLoadStateFromFile
    \/ DoDisposeResources

SpecState == InitState /\ [][NextState]_vars

\* s.DisposeResources() run again by the operator, every command succeeding
DoDisposeRerun ==
    /\ last.op = "idle"
    /\ ~st.nil
    /\ \E r \in {DisposeResources(st, Begin({}), file)} :
        /\ st' = r.st
        /\ file' = r.file
        /\ saved' = IF r.file.exists THEN saved ELSE NilState
        /\ last' = Done("DisposeResources", 0, 0, 0, r.h, r.err)
    /\ UNCHANGED cfg

\* build, save, and dispose until it succeeds
NextDispose ==
    \/ Return
    \/ DoInitAll
    \/ DoSaveState
    \/ DoDisposeRerun

\* the caller always takes a result, and the operator runs dispose again and
\* again
SpecDispose ==
    /\ InitState
    /\ [][NextDispose]_vars
    /\ WF_vars(Return)
    /\ SF_vars(DoDisposeRerun)

\* ---------------------------------------------------------------- properties
\* The properties are about the operation that has just returned: last holds
\* its arguments, its result and the State it started from (last.pre); st is
\* the State it left.

\* the direct link, the veth pair, the namespace and the endpoint the last
\* operation was called on, before and after it
PreLink == last.pre.DirectLinks[last.i]
PostLink == st.DirectLinks[last.i]
PrePair == PreLink.VethPair
PostPair == PostLink.VethPair
PreNs == last.pre.Namespaces[last.a]
PostNs == st.Namespaces[last.a]
PreEnd == Endpoint(last.pre, last.i, last.b)
PostEnd == Endpoint(st, last.i, last.b)

\* the roster of namespace n has an entry whose name is a prefix of name
Matches(n, name) ==
    \E k \in 1..Len(n.RegisteredDeviceConfig) :
        HasPrefix(name, n.RegisteredDeviceConfig[k].Name)

\* C1: DirectLink.Destroy returns success if and only if the link was busy
\* immediately before the call, so the Destroy of a busy link never fails,
\* whatever the delete command does.  The code does not satisfy it.
C1_DestroySucceedsIffBusy ==
    last.op = "DirectLink.Destroy" => (last.err = NIL <=> PreLink.Busy)

\* C2 as stated: on a created pair, Destroy with neither endpoint attached
\* issues a delete and sets Active to false; with both attached it issues no
\* command, succeeds and leaves Active true.
C2_Original ==
    last.op = "VethPair.Destroy" /\ PrePair.Active =>
        /\ ~PrePair.Left.Attached /\ ~PrePair.Right.Attached =>
              /\ Len(last.log) = 1
              /\ last.log[1].op = "link_del"
              /\ ~PostPair.Active
        /\ PrePair.Left.Attached /\ PrePair.Right.Attached =>
              last.log = <<>> /\ last.err = NIL /\ PostPair.Active

\* C2: on an active pair, Destroy with neither endpoint attached issues exactly
\* one delete command, of the left endpoint, and Active becomes false (and the
\* call succeeds) exactly when that command succeeded; with both endpoints
\* attached it issues no command, succeeds and leaves the pair as it was.
C2_DestroyPair ==
    last.op = "VethPair.Destroy" /\ PrePair.Active =>
        /\ ~PrePair.Left.Attached /\ ~PrePair.Right.Attached =>
              /\ Len(last.log) = 1
              /\ last.log[1].op = "link_del"
              /\ last.log[1].a = PrePair.Left.Name
              /\ last.log[1].ok <=> ~PostPair.Active
              /\ last.log[1].ok <=> last.err = NIL
        /\ PrePair.Left.Attached /\ PrePair.Right.Attached =>
              last.log = <<>> /\ last.err = NIL /\ PostPair = PrePair

\* Destroy on an active pair with both endpoints attached
C2_Witness ==
    /\ last.op = "VethPair.Destroy"
    /\ PrePair.Active
    /\ PrePair.Left.Attached /\ PrePair.Right.Attached
    /\ PostPair.Active

\* C3 as stated: when Attach is called twice in a row with the same namespace
\* and endpoint, the second call returns an error.
C3_Original ==
    last.op = "Namespace.Attach twice" => last.err # NIL

\* C3: when Attach is called twice in a row with the same namespace and
\* endpoint, the first call succeeded and the roster has an entry whose name is
\* a prefix of the endpoint's name, the second call returns an error; when no
\* entry matches and the endpoint is unattached, both calls succeed.
C3_SecondAttachFails ==
    last.op = "Namespace.Attach twice" =>
        /\ last.err1 = NIL /\ Matches(PreNs, PreEnd.Name) => last.err # NIL
        /\ ~PreEnd.Attached /\ ~Matches(PreNs, PreEnd.Name) =>
              last.err1 = NIL /\ last.err = NIL

\* a first Attach that succeeded on a matching entry, and a failing second one
C3_Witness ==
    /\ last.op = "Namespace.Attach twice"
    /\ last.err1 = NIL
    /\ Matches(PreNs, PreEnd.Name)
    /\ last.err = "is already attached"

\* C4: Attach with an unattached endpoint whose name has no roster entry's
\* name as a prefix returns success, issues no command, and leaves the roster
\* and the endpoint (so every Configured flag and the Attached flag) unchanged.
C4_NoMatchNoChange ==
    last.op = "Namespace.Attach" /\ ~PreEnd.Attached /\ ~Matches(PreNs, PreEnd.Name) =>
        /\ last.err = NIL
        /\ last.log = <<>>
        /\ PostNs = PreNs
        /\ PostEnd = PreEnd /\ ~PostEnd.Attached
        /\ st = last.pre

\* such a call on a namespace whose roster is not empty
C4_Witness ==
    /\ last.op = "Namespace.Attach"
    /\ ~PreEnd.Attached
    /\ PreNs.RegisteredDeviceConfig # <<>>
    /\ ~Matches(PreNs, PreEnd.Name)
    /\ last.err = NIL

\* the number of roster entries of the namespaces nss called name
Degree(nss, name) == Len(NetLinksOf(nss, 1, name))

\* every command of the last operation succeeded
AllOk == \A k \in 1..Len(last.log) : last.log[k].ok

\* nothing of State s is wired yet, and every subnet of its rosters is well formed
Fresh(s) ==
    /\ \A i \in 1..Len(s.DirectLinks) :
          /\ ~s.DirectLinks[i].Busy
          /\ s.DirectLinks[i].VethPair.Active
          /\ ~s.DirectLinks[i].VethPair.Left.Attached
          /\ ~s.DirectLinks[i].VethPair.Right.Attached
    /\ \A a \in 1..Len(s.Namespaces) :
          \A k \in 1..Len(s.Namespaces[a].RegisteredDeviceConfig) :
              /\ ~s.Namespaces[a].RegisteredDeviceConfig[k].Configured
              /\ ~ParseCIDRFails(s.Namespaces[a].RegisteredDeviceConfig[k].Cidr)

\* C5: when the rosters reference a link name exactly twice in total, the two
\* references in the same namespace included, and a direct link of that name
\* exists and is not busy, a topology-builder pass whose commands all succeed
\* makes that link busy.  Stated for freshly constructed lists whose rosters
\* reference no other name; the code does not satisfy it.
C5_WiresDegreeTwo ==
    last.op = "InitNamespacesLinks" /\ AllOk /\ Fresh(last.pre) =>
        \A i \in 1..Len(last.pre.DirectLinks) :
            /\ NetLinkNames(last.pre.Namespaces) = {last.pre.DirectLinks[i].Name}
            /\ Degree(last.pre.Namespaces, last.pre.DirectLinks[i].Name) = 2
            /\ FindValidLinkIndex(last.pre.DirectLinks, last.pre.DirectLinks[i].Name) = i
            => st.DirectLinks[i].Busy

\* a link name with one reference, or with three or more
BadDegree(nss, name) == Degree(nss, name) = 1 \/ Degree(nss, name) > 2

\* C6 as stated: if some referenced link name has degree 1 or degree 3 or more,
\* the topology builder returns an error, has made no CreateLink call, and
\* every link's Busy flag and endpoints are unchanged, whatever the order.
C6_Original ==
    /\ last.op = "InitNamespacesLinks"
    /\ \E name \in NetLinkNames(last.pre.Namespaces) : BadDegree(last.pre.Namespaces, name)
    => /\ last.err # NIL
       /\ last.calls = <<>>
       /\ st.DirectLinks = last.pre.DirectLinks

\* C6: if some referenced link name has degree 1 or degree 3 or more, the
\* topology builder returns an error, whatever the order; it makes no
\* CreateLink call on a direct link of such a name, whose Busy flag and
\* endpoints are unchanged (links of degree 2 visited earlier may be wired).
C6_BadDegreeNotWired ==
    last.op = "InitNamespacesLinks" =>
        \A name \in NetLinkNames(last.pre.Namespaces) :
            BadDegree(last.pre.Namespaces, name) =>
                /\ last.err # NIL
                /\ \A k \in 1..Len(last.calls) : last.calls[k].link # name
                /\ \A i \in 1..Len(st.DirectLinks) :
                      st.DirectLinks[i].Name = name =>
                          st.DirectLinks[i] = last.pre.DirectLinks[i]

\* a pass that wired one link before it rejected a name of degree 1 or 3
C6_Witness ==
    /\ last.op = "InitNamespacesLinks"
    /\ \E name \in NetLinkNames(last.pre.Namespaces) :
          /\ BadDegree(last.pre.Namespaces, name)
          /\ \E i \in 1..Len(st.DirectLinks) : st.DirectLinks[i].Name = name
    /\ last.calls # <<>>
    /\ last.err \in {"have only 1 link", "has over 3 links"}

\* the Destroy calls of the last operation's cleanups on elements of one kind
Attempts(kind) == {k \in 1..Len(last.destroys) : last.destroys[k].kind = kind}

\* one of them returned an error
Failed(kind) == \E k \in Attempts(kind) : last.destroys[k].err # NIL

\* C7: when InitAll fails because the construction of a namespace or the
\* wiring failed, a destroy is invoked on every direct link, bridge and
\* namespace it had created, and with every cleanup command succeeding no veth
\* pair or namespace the build created is left on the host.  The code does
\* not satisfy it.
C7_FailedBuildLeavesNothing ==
    /\ last.op = "InitAll"
    /\ last.pre.nil
    /\ last.err # NIL
    /\ \A k \in 1..Len(last.log) :
          last.log[k].ok \/ last.log[k].op \in {"netns_add", "link_set_netns", "addr_add"}
    => /\ Cardinality(Attempts("link"))
            = Cardinality({k \in 1..Len(last.log) :
                             last.log[k].op = "link_add" /\ last.log[k].ok})
       /\ Cardinality(Attempts("bridge"))
            = Cardinality({k \in 1..Len(last.log) :
                             last.log[k].op = "bridge_add" /\ last.log[k].ok})
       /\ Cardinality(Attempts("namespace"))
            = Cardinality({k \in 1..Len(last.log) :
                             last.log[k].op = "netns_add" /\ last.log[k].ok})
       /\ last.host.dev = {}
       /\ last.host.netns = {}

\* C8: InitAll called with a non-nil State returns an error and a nil State,
\* issues no command (creates nothing on the host), and leaves the persisted
\* file and the State it was given as they were.
C8_BuildRefusesExisting ==
    last.op = "InitAll" /\ ~last.pre.nil =>
        /\ last.err = "must destroy existing resources"
        /\ last.out.nil
        /\ last.log = <<>>
        /\ last.host = NoHost
        /\ file = last.preFile
        /\ st = last.pre

\* InitAll refused with a built State and a saved file
C8_Witness ==
    /\ last.op = "InitAll"
    /\ ~last.pre.nil
    /\ last.pre.DirectLinks # <<>>
    /\ last.preFile.exists
    /\ last.err # NIL

\* C9: DisposeResources destroys the direct links, then the bridges, then the
\* namespaces, every element of a category it reaches, and stops after the
\* first category with an error: no bridge or namespace destroy after a failed
\* link cleanup, no namespace destroy after a failed bridge cleanup.  The file
\* is removed if and only if the three cleanups had no error, and then
\* LoadStateFromFile reports "no saved state".
C9_DisposeOrder ==
    last.op = "DisposeResources" =>
        /\ \A j \in Attempts("link") : \A k \in Attempts("bridge") : j < k
        /\ \A j \in Attempts("bridge") : \A k \in Attempts("namespace") : j < k
        /\ \A j \in Attempts("link") : last.destroys[j].k = j
        /\ Cardinality(Attempts("link")) = Len(last.pre.DirectLinks)
        /\ Cardinality(Attempts("bridge"))
              = IF Failed("link") THEN 0 ELSE Len(last.pre.Bridges)
        /\ Cardinality(Attempts("namespace"))
              = IF Failed("link") \/ Failed("bridge") THEN 0
                ELSE Len(last.pre.Namespaces)
        /\ Failed("link") \/ Failed("bridge") \/ Failed("namespace") =>
              last.err # NIL /\ file = last.preFile
        /\ last.preFile.exists =>
              (~file.exists <=>
                  ~(Failed("link") \/ Failed("bridge") \/ Failed("namespace")))
        /\ last.preFile.exists /\ ~file.exists =>
              last.err = NIL /\ LoadStateFromFile(file).err = "no saved state"

\* a dispose of wired links and namespaces that removed the saved file
C9_Witness ==
    /\ last.op = "DisposeResources"
    /\ last.pre.DirectLinks # <<>>
    /\ last.pre.Namespaces # <<>>
    /\ last.preFile.exists
    /\ ~file.exists
    /\ last.err = NIL

\* C10: LoadStateFromFile after SaveState(x) returns a State with the direct
\* links, bridges and namespaces of x, equal on every persisted field; with no
\* file saved it returns the "no saved state" error and no State.
C10_RoundTrip ==
    last.op = "LoadStateFromFile" =>
        IF last.preFile.exists
        THEN /\ last.err = NIL
             /\ ~last.out.nil
             /\ last.out.DirectLinks = saved.DirectLinks
             /\ last.out.Bridges = saved.Bridges
             /\ last.out.Namespaces = saved.Namespaces
        ELSE last.err = "no saved state" /\ last.out.nil

\* a loaded State with a busy link, an attached endpoint and a configured entry
C10_Witness ==
    /\ last.op = "LoadStateFromFile"
    /\ last.err = NIL
    /\ \E i \in 1..Len(last.out.DirectLinks) :
          /\ last.out.DirectLinks[i].Busy
          /\ last.out.DirectLinks[i].VethPair.Left.Attached
    /\ \E a \in 1..Len(last.out.Namespaces) :
          \E k \in 1..Len(last.out.Namespaces[a].RegisteredDeviceConfig) :
              last.out.Namespaces[a].RegisteredDeviceConfig[k].Configured

\* the list a batch cleanup was called on: the direct links or the namespaces
CleanedList ==
    IF last.op = "CleanupDirectLinks" THEN last.pre.DirectLinks
    ELSE last.pre.Namespaces

\* C11: CleanupDirectLinks and CleanupNamespaces call Destroy on every element
\* of their list exactly once, in list order, whichever earlier Destroy
\* failed, and return an error if and only if some Destroy failed.
C11_CleanupVisitsAll ==
    last.op \in {"CleanupDirectLinks", "CleanupNamespaces"} =>
        /\ Len(last.destroys) = Len(CleanedList)
        /\ \A k \in 1..Len(last.destroys) :
              /\ last.destroys[k].k = k
              /\ last.destroys[k].kind =
                    IF last.op = "CleanupDirectLinks" THEN "link" ELSE "namespace"
        /\ last.err # NIL <=>
              \E k \in 1..Len(last.destroys) : last.destroys[k].err # NIL

\* a cleanup of two direct links whose first Destroy failed and second succeeded
C11_Witness ==
    /\ last.op = "CleanupDirectLinks"
    /\ Len(last.destroys) = 2
    /\ last.destroys[1].err # NIL
    /\ last.destroys[2].err = NIL
    /\ last.err # NIL

\* C12: InitNamespaces issues one creation command per configuration, in
\* order, until one fails; it then returns that error and no list, having
\* issued no command for the later configurations (the namespaces created
\* before stay on the host and are not returned).  Without a failure it
\* returns one active namespace per configuration.
C12_InitNamespacesAborts ==
    last.op = "InitNamespaces" =>
        /\ Len(last.log) <= Len(cfg.Namespaces)
        /\ \A k \in 1..Len(last.log) :
              /\ last.log[k].op = "netns_add"
              /\ last.log[k].a = cfg.Namespaces[k].Name
              /\ last.log[k].ok <=> (k < Len(last.log) \/ last.err = NIL)
        /\ last.err # NIL =>
              /\ last.log # <<>>
              /\ last.out.nil /\ last.out.Namespaces = <<>>
              /\ last.host.netns =
                    {cfg.Namespaces[k].Name : k \in 1..(Len(last.log) - 1)}
        /\ last.err = NIL =>
              /\ Len(last.log) = Len(cfg.Namespaces)
              /\ Len(last.out.Namespaces) = Len(cfg.Namespaces)
              /\ \A k \in 1..Len(cfg.Namespaces) :
                    /\ last.out.Namespaces[k].Name = cfg.Namespaces[k].Name
                    /\ last.out.Namespaces[k].Active

\* a batch that failed on its first namespace and never tried the second
C12_Witness ==
    /\ last.op = "InitNamespaces"
    /\ last.err # NIL
    /\ Len(last.log) = 1
    /\ Len(cfg.Namespaces) > 1

\* C13: in every reachable state a direct link with Busy true has both its
\* endpoints Attached, whatever the CreateLink calls and their namespaces.
\* The code does not satisfy it.
C13_BusyImpliesAttached ==
    \A i \in 1..Len(st.DirectLinks) :
        st.DirectLinks[i].Busy =>
            /\ st.DirectLinks[i].VethPair.Left.Attached
            /\ st.DirectLinks[i].VethPair.Right.Attached

\* the roster entries of namespace a that the last operation configured
NewlyConfigured(a) ==
    {k \in 1..Len(st.Namespaces[a].RegisteredDeviceConfig) :
        /\ st.Namespaces[a].RegisteredDeviceConfig[k].Configured
        /\ ~last.pre.Namespaces[a].RegisteredDeviceConfig[k].Configured}

\* the position of the first roster entry of n whose name is a prefix of name
FirstMatch(n, name) ==
    CHOOSE k \in 1..Len(n.RegisteredDeviceConfig) :
        /\ HasPrefix(name, n.RegisteredDeviceConfig[k].Name)
        /\ \A j \in 1..(k - 1) : ~HasPrefix(name, n.RegisteredDeviceConfig[j].Name)

\* the positions of the commands of the last operation that failed
FailedAt == {k \in 1..Len(last.log) : ~last.log[k].ok}

\* what the left Attach of the last CreateLink call returned: the first thing
\* the call does is left.Attach(&d.VethPair.Left)
LeftAttach == NamespaceAttach(PreNs, PrePair.Left, Begin(FailedAt))

\* the last operation is a CreateLink on a link that was not busy, whose left
\* Attach returned nil and which returned an error: its right Attach failed
RightAttachFailed ==
    /\ last.op = "DirectLink.CreateLink"
    /\ ~PreLink.Busy
    /\ LeftAttach.err = NIL
    /\ last.err # NIL

\* C14 as stated: when the left Attach succeeds and the right Attach fails,
\* CreateLink returns the error with the left endpoint Attached and its roster
\* entry Configured, the right endpoint unattached and Busy false.
C14_Original ==
    RightAttachFailed =>
        /\ PostPair.Left.Attached
        /\ Matches(PreNs, PrePair.Left.Name)
        /\ PostNs.RegisteredDeviceConfig[FirstMatch(PreNs, PrePair.Left.Name)].Configured
        /\ ~PostPair.Right.Attached
        /\ ~PostLink.Busy

\* C14: CreateLink attaches the left endpoint to its first namespace before it
\* tries the right endpoint; when the left Attach returned nil and the right
\* Attach fails, CreateLink returns the error and undoes nothing: Busy stays
\* false, the right endpoint is as it was before the call (unattached, unless
\* it was attached already, which is then why its Attach failed), and the left
\* endpoint is as its Attach left it: Attached, with the first matching roster
\* entry of the first namespace newly Configured, when that roster has an
\* entry matching the endpoint, and unchanged (unattached, no entry
\* configured) when it has none.  The right Attach issued no command before
\* the left one's, and no other namespace changed.
C14_HalfWired ==
    RightAttachFailed =>
        /\ ~PostLink.Busy
        /\ PostPair.Right = PrePair.Right
        /\ ~PrePair.Left.Attached
        /\ Matches(PreNs, PrePair.Left.Name) =>
              /\ PostPair.Left.Attached
              /\ NewlyConfigured(last.a) = {FirstMatch(PreNs, PrePair.Left.Name)}
              /\ Len(last.log) >= 2
              /\ last.log[1] = Cmd("link_set_netns", PrePair.Left.Name, PreNs.Name)
              /\ last.log[2] = Cmd("addr_add", PrePair.Left.Name, PreNs.Name)
              /\ \A k \in 3..Len(last.log) : last.log[k].a = PrePair.Right.Name
        /\ ~Matches(PreNs, PrePair.Left.Name) =>
              /\ PostPair.Left = PrePair.Left
              /\ NewlyConfigured(last.a) = {}
              /\ \A k \in 1..Len(last.log) : last.log[k].a = PrePair.Right.Name
        /\ \A c \in 1..Len(st.Namespaces) :
              c # last.a => st.Namespaces[c] = last.pre.Namespaces[c]

\* a CreateLink whose left Attach attached the left endpoint and whose right
\* Attach was refused because the right endpoint was attached already
C14_Witness ==
    /\ RightAttachFailed
    /\ ~PrePair.Left.Attached /\ PostPair.Left.Attached
    /\ PrePair.Right.Attached /\ PostPair.Right.Attached
    /\ ~PostLink.Busy
    /\ last.err = "is already attached"

\* C15: a Namespace.Attach call changes the Configured flag of at most one
\* roster entry, of the namespace it is called on, and only of the first entry
\* in roster order whose name is a prefix of the endpoint's name; no operation
\* takes a Configured flag from true back to false, so a flag goes from false
\* to true at most once.
C15_FirstMatchOnly ==
    /\ last.op = "Namespace.Attach" =>
          /\ Cardinality(NewlyConfigured(last.a)) <= 1
          /\ \A k \in NewlyConfigured(last.a) :
                /\ Matches(PreNs, PreEnd.Name)
                /\ k = FirstMatch(PreNs, PreEnd.Name)
          /\ \A c \in 1..Len(st.Namespaces) :
                c # last.a => st.Namespaces[c] = last.pre.Namespaces[c]
    /\ last.op # "idle" =>
          \A c \in 1..Len(last.pre.Namespaces) :
              /\ c <= Len(st.Namespaces)
              /\ \A k \in 1..Len(last.pre.Namespaces[c].RegisteredDeviceConfig) :
                    last.pre.Namespaces[c].RegisteredDeviceConfig[k].Configured =>
                        st.Namespaces[c].RegisteredDeviceConfig[k].Configured

\* an Attach on a roster of two matching entries that configured the first,
\* and only the first
C15_Witness ==
    /\ last.op = "Namespace.Attach"
    /\ Len(PreNs.RegisteredDeviceConfig) = 2
    /\ HasPrefix(PreEnd.Name, PreNs.RegisteredDeviceConfig[2].Name)
    /\ NewlyConfigured(last.a) = {1}
    /\ ~PostNs.RegisteredDeviceConfig[2].Configured

\* C16: when Namespace.Attach returns an error (endpoint already attached,
\* matched entry already configured, subnet that does not parse, move or
\* assign command failed), the roster (every Configured flag) and the endpoint
\* (its Attached flag) are as before the call, and so is the rest of the
\* State; the first three errors are returned before any command is issued,
\* the move failure after one command, the assign failure after two.
C16_AttachErrorNoChange ==
    last.op = "Namespace.Attach" /\ last.err # NIL =>
        /\ PostNs = PreNs
        /\ PostEnd = PreEnd
        /\ st = last.pre
        /\ last.err \in {"is already attached", "has been attached to namespace",
                         "failed to parse CIDR"} => last.log = <<>>
        /\ last.err = "failed to set device" =>
              Len(last.log) = 1 /\ ~last.log[1].ok
        /\ last.err = "failed to assign CIDR" =>
              Len(last.log) = 2 /\ last.log[1].ok /\ ~last.log[2].ok

\* an Attach whose move command succeeded and whose assign command failed
C16_Witness ==
    /\ last.op = "Namespace.Attach"
    /\ last.err = "failed to assign CIDR"
    /\ Len(last.log) = 2
    /\ ~PostEnd.Attached

\* a State that InitAll built and wired without error, without bridges, just
\* saved
BuiltAndSaved ==
    /\ last.op = "SaveState"
    /\ last.err = NIL
    /\ st.Bridges = <<>>
    /\ file.exists

\* a dispose that returned success and removed the file
Disposed ==
    /\ last.op = "DisposeResources"
    /\ last.err = NIL
    /\ \A k \in 1..Len(last.destroys) : last.destroys[k].err = NIL
    /\ ~file.exists

\* C17: from a State that a successful build returned (a direct link that no
\* roster references included), with every command succeeding, dispose run
\* again as often as needed eventually returns success, its namespaces
\* destroyed and the file removed.  The code does not satisfy it.
C17_DisposeEventuallySucceeds == BuiltAndSaved ~> Disposed

\* C18: after a Namespace.Destroy that succeeded the namespace is inactive, and
\* a second Destroy on it returns an error and issues no delete command.  The
\* code does not satisfy it.
C18_SecondDestroyRefused ==
    last.op = "Namespace.Destroy" /\ last.err = NIL =>
        /\ ~PostNs.Active
        /\ NamespaceDestroy(PostNs, Begin({})).err # NIL
        /\ NamespaceDestroy(PostNs, Begin({})).h.log = <<>>

\* the error of a topology-builder pass over the State s in the given order,
\* every command succeeding
PassErr(s, order) ==
    InitNamespacesLinks([dl |-> s.DirectLinks, ns |-> s.Namespaces, h |-> Begin({})],
                        order).err

\* C19: for given namespaces and direct links and with every command
\* succeeding, the topology builder returns success in one iteration order
\* over the link names if and only if it does in every other (rosters in which
\* one name is a prefix of another included); when it returns success, every
\* referenced direct link is Busy.
C19_OrderIndependent ==
    last.op = "InitNamespacesLinks" /\ AllOk =>
        /\ \A order \in Orders(NetLinkNames(last.pre.Namespaces)) :
              PassErr(last.pre, order) = NIL <=> last.err = NIL
        /\ last.err = NIL =>
              \A name \in NetLinkNames(last.pre.Namespaces) :
                  st.DirectLinks[FindValidLinkIndex(st.DirectLinks, name)].Busy

\* a successful pass over rosters that reference two names, one a prefix of
\* the other
C19_Witness ==
    /\ last.op = "InitNamespacesLinks"
    /\ AllOk
    /\ NetLinkNames(last.pre.Namespaces) = {NameA, NameAB}
    /\ last.err = NIL
    /\ \A i \in 1..Len(st.DirectLinks) : st.DirectLinks[i].Busy

\* the roster entries of State s with Configured true: <<namespace, position>>
ConfiguredEntries(s) ==
    UNION {{<<a, k>> : k \in {j \in 1..Len(s.Namespaces[a].RegisteredDeviceConfig) :
                                s.Namespaces[a].RegisteredDeviceConfig[j].Configured}}
           : a \in 1..Len(s.Namespaces)}

\* the endpoints of State s with Attached true: <<direct link, side>>
AttachedEndpoints(s) ==
    {e \in (1..Len(s.DirectLinks)) \X {1, 2} : Endpoint(s, e[1], e[2]).Attached}

\* C20: in every reachable state there are as many roster entries with
\* Configured true, over all namespaces, as endpoints with Attached true; an
\* operation adds as many to the ones as to the others and resets none.
C20_ConfiguredEqualsAttached ==
    /\ Cardinality(ConfiguredEntries(st)) = Cardinality(AttachedEndpoints(st))
    /\ last.op # "idle" =>
          /\ ConfiguredEntries(last.pre) \subseteq ConfiguredEntries(st)
          /\ AttachedEndpoints(last.pre) \subseteq AttachedEndpoints(st)

\* a pair deleted by Destroy while one of its endpoints is attached and one
\* roster entry configured
C20_Witness ==
    /\ last.op \in {"VethPair.Destroy", "DirectLink.Destroy"}
    /\ last.err = NIL
    /\ PrePair.Active /\ ~PostPair.Active
    /\ Cardinality(AttachedEndpoints(st)) = 1
    /\ Cardinality(ConfiguredEntries(st)) = 1

====
